---- MODULE Spec2Model ----
(***************************************************************************)
(* Model of examples/backend-python/main.py: the Idea service.             *)
(*                                                                         *)
(* The handlers share no in-process state: a request touches other         *)
(* requests only through the table `ideas`.  The model serves requests one *)
(* after the other.  A request walks through the statements of its         *)
(* handler; every call into psycopg2 / pydantic may return or raise, and a *)
(* raised exception is routed through the handler's except clauses in the  *)
(* same step.  An INSERT stays private to its transaction until            *)
(* conn.commit(); a transaction that is never committed never becomes      *)
(* visible.                                                                *)
(***************************************************************************)
EXTENDS Integers, Sequences, FiniteSets, TLC

\* ---------------------------------------------------------------- bounds
MaxIdeas == 2       \* values the id sequence hands out before INSERT fails
MaxClock == 1       \* datetime.utcnow() yields 0..MaxClock

Contents == {"a", "b"}
Clock == 0..MaxClock
IdeaIds == 1..(MaxIdeas + 1)

\* ------------------------------------------------------ program constants
max_retries == 5
SleepSeconds == 2

Ops == {"health", "list", "add", "get"}

\* Exception classes the calls may raise.  OperationalError is a subclass
\* of psycopg2.Error; DatabaseError stands for every other psycopg2.Error;
\* Exception for everything that is no psycopg2.Error and no HTTPException.
ErrKinds == {"OperationalError", "DatabaseError", "Exception"}

IsPsycopg2Error(kind) == kind \in {"OperationalError", "DatabaseError"}

Exc(kind) == [kind |-> kind, status |-> 0, detail |-> ""]
HTTPException(status, detail) ==
    [kind |-> "HTTPException", status |-> status, detail |-> detail]

\* ------------------------------------------------------------- responses
ErrorResp(status, detail) ==
    [status |-> status, detail |-> detail, health |-> "", body |-> <<>>]
OkResp(body) ==
    [status |-> 200, detail |-> "", health |-> "", body |-> body]
NoResp == [status |-> 0, detail |-> "", health |-> "", body |-> <<>>]

HealthResponse ==
    [status |-> 200, detail |-> "", health |-> "healthy", body |-> <<>>]

\* Idea(id=r[0], content=r[1], created_at=r[2])
RowToIdea(r) == [id |-> r.id, content |-> r.content, created_at |-> r.created_at]

\* Idea(id=row[0], content=idea.content, created_at=row[1])
AddedIdea(r, submitted) ==
    [id |-> r.id, content |-> submitted, created_at |-> r.created_at]

\* ------------------------------------------------------ get_db_connection
LoopCond(rc) == rc < max_retries

\* except psycopg2.OperationalError; the variant is a bare `except Exception`
IsRetryableAnyException(kind) == TRUE
IsRetryable(kind) == kind = "OperationalError"

\* if retry_count >= max_retries; the variant tests `>`
ExhaustedOffByOne(rc) == rc >= max_retries + 1
Exhausted(rc) == rc >= max_retries

\* seconds slept after the rc-th failed attempt; the variant sleeps before
\* it tests retry_count
DelayBeforeCheck(rc) == SleepSeconds
DelayAfterFailure(rc) == IF Exhausted(rc) THEN 0 ELSE SleepSeconds

\* ------------------------------------------------------- except clauses
\* except Exception; the variant catches psycopg2.OperationalError alone
HealthExceptOperationalOnly(e) ==
    IF e.kind = "OperationalError" THEN HealthResponse
    ELSE ErrorResp(500, "Internal Server Error")
HealthExcept(e) == HealthResponse

ListExcept(e) == ErrorResp(500, "Failed to fetch ideas")

AddExcept(e) == ErrorResp(500, "Failed to add idea")

\* the three except clauses; the variant lacks `except HTTPException: raise`
GetExceptCatchAll(e) ==
    IF IsPsycopg2Error(e.kind) THEN ErrorResp(500, "Database error")
    ELSE ErrorResp(500, "Internal server error")
GetExcept(e) ==
    IF IsPsycopg2Error(e.kind) THEN ErrorResp(500, "Database error")
    ELSE IF e.kind = "HTTPException" THEN ErrorResp(e.status, e.detail)
    ELSE ErrorResp(500, "Internal server error")

ExceptResp(o, e) ==
    CASE o = "health" -> HealthExcept(e)
      [] o = "list" -> ListExcept(e)
      [] o = "add" -> AddExcept(e)
      [] o = "get" -> GetExcept(e)

\* ------------------------------------------------------------ the store
Ids(rows) == {r.id : r \in rows}

\* every order in which a scan may meet the rows of the table
ScanOrders(rows) ==
    {s \in [1..Cardinality(rows) -> rows] :
        \A i, j \in 1..Cardinality(rows) : i # j => s[i] # s[j]}

RECURSIVE InsertDesc(_, _)
InsertDesc(r, s) ==
    IF s = <<>> THEN <<r>>
    ELSE IF Head(s).created_at >= r.created_at
         THEN <<Head(s)>> \o InsertDesc(r, Tail(s))
         ELSE <<r>> \o s

RECURSIVE OrderByCreatedAtDescFrom(_, _)
OrderByCreatedAtDescFrom(scan, sorted) ==
    IF scan = <<>> THEN sorted
    ELSE OrderByCreatedAtDescFrom(Tail(scan), InsertDesc(Head(scan), sorted))

\* SELECT id, content, created_at FROM ideas ORDER BY created_at DESC; the
\* variant lacks the ORDER BY
SelectAllUnordered(scan) == scan
SelectAll(scan) == OrderByCreatedAtDescFrom(scan, <<>>)

\* SELECT id, content, created_at FROM ideas WHERE id = %s; the variant
\* lacks the WHERE
SelectByIdNoWhere(rows, id) ==
    IF rows = {} THEN <<>> ELSE <<CHOOSE r \in rows : \A q \in rows : q.id >= r.id>>
SelectById(rows, id) ==
    IF \E r \in rows : r.id = id THEN <<CHOOSE r \in rows : r.id = id>> ELSE <<>>

\* INSERT ... RETURNING id, created_at
Returning(r) == [id |-> r.id, created_at |-> r.created_at]

\* rows visible after an INSERT that is not committed; the variant runs the
\* connection in autocommit mode
AfterInsertAutocommit(rows, new) == rows \cup {new}
AfterInsert(rows, new) == rows

\* rows visible after conn.commit(); the variant replaces the rows of equal
\* content
AfterCommitUpsert(rows, pend) ==
    {r \in rows : \A i \in 1..Len(pend) : r.content # pend[i].content}
        \cup {pend[i] : i \in 1..Len(pend)}
AfterCommit(rows, pend) == rows \cup {pend[i] : i \in 1..Len(pend)}

\* cur.fetchone() / cur.fetchall()
FetchOne(res) == IF res = <<>> THEN <<>> ELSE <<Head(res)>>
FetchAll(res) == [i \in 1..Len(res) |-> RowToIdea(res[i])]

\* ---------------------------------------------------------------- state
VARIABLES
    store,        \* committed rows of table ideas
    nextId,       \* next value of the id sequence
    pc,           \* statement the request is at
    op,           \* handler being run
    content,      \* idea.content of add_idea
    idea_id,      \* idea_id of get_idea
    retry_count,  \* retry_count of get_db_connection
    connErr,      \* class of e, the exception get_db_connection caught last
    conn,         \* conn: "none" before the call, "open", "closed", "close_raised"
                  \* (conn.close() was called and raised), "None"
    result,       \* result set held by the cursor
    pending,      \* rows inserted by the open transaction
    fetched,      \* row / ideas
    resp,         \* response sent to the client
    slept,        \* seconds spent in time.sleep
    attempts,     \* calls of psycopg2.connect made for the request
    executes,     \* calls of cur.execute made for the request
    acq,          \* how get_db_connection ended
    excKind,      \* class of the exception raised in the try body
    excAt,        \* statement that raised it
    expect,       \* the Idea add_idea had returned for idea_id
    snap,         \* rows visible when list_ideas ran its SELECT
    before,       \* rows committed when the request arrived
    added         \* Ideas returned by add_idea with status 200

vars == <<store, nextId, pc, op, content, idea_id, retry_count, connErr, conn,
          result, pending, fetched, resp, slept, attempts, executes, acq, excKind,
          excAt, expect, snap, before, added>>

Init ==
    /\ store = {}
    /\ nextId = 1
    /\ pc = "idle"
    /\ op = "none"
    /\ content = ""
    /\ idea_id = 0
    /\ retry_count = 0
    /\ connErr = "none"
    /\ conn = "none"
    /\ result = <<>>
    /\ pending = <<>>
    /\ fetched = <<>>
    /\ resp = NoResp
    /\ slept = 0
    /\ attempts = 0
    /\ executes = 0
    /\ acq = "none"
    /\ excKind = "none"
    /\ excAt = "none"
    /\ expect = <<>>
    /\ snap = {}
    /\ before = {}
    /\ added = {}

\* the exception e leaves the try body at statement step: the handler's
\* except clauses produce the response
Raise(step, e) ==
    /\ pc' = "done"
    /\ resp' = ExceptResp(op, e)
    /\ excKind' = e.kind
    /\ excAt' = step

Goto(next) ==
    /\ pc' = next
    /\ UNCHANGED <<resp, excKind, excAt>>

Return(r) ==
    /\ pc' = "done"
    /\ resp' = r
    /\ UNCHANGED <<excKind, excAt>>

\* what a call on conn / cur may do: on None every attribute access raises
Outcomes ==
    IF conn = "None" THEN {"Exception"} ELSE {"ok", "DatabaseError", "Exception"}

\* a request arrives
Start ==
    /\ pc = "idle"
    /\ \E o \in Ops, c \in Contents, i \in IdeaIds :
        /\ op' = o
        /\ content' = IF o = "add" THEN c ELSE ""
        /\ idea_id' = IF o = "get" THEN i ELSE 0
        /\ expect' = IF o = "get" /\ \E a \in added : a.id = i
                        THEN <<CHOOSE a \in added : a.id = i>> ELSE <<>>
    /\ before' = store
    /\ pc' = "connect"
    /\ UNCHANGED <<store, nextId, retry_count, connErr, conn, result, pending, fetched,
                   resp, slept, attempts, executes, acq, excKind, excAt, snap, added>>

\* one pass of the while loop of get_db_connection
Connect ==
    /\ pc = "connect"
    /\ \E out \in {"ok"} \cup ErrKinds :
        IF out = "ok" THEN
            /\ conn' = "open"
            /\ acq' = "connected"
            /\ Goto(IF op = "health" THEN "conn_close" ELSE "execute")
            /\ attempts' = attempts + 1
            /\ UNCHANGED <<retry_count, connErr, slept>>
        ELSE IF IsRetryable(out) THEN
            /\ attempts' = attempts + 1
            /\ connErr' = out
            /\ retry_count' = retry_count + 1
            /\ slept' = slept + DelayAfterFailure(retry_count + 1)
            /\ IF Exhausted(retry_count + 1) THEN
                   /\ acq' = "exhausted"
                   /\ Raise("connect", Exc(out))
                   /\ UNCHANGED conn
               ELSE IF LoopCond(retry_count + 1) THEN
                   /\ Goto("connect")
                   /\ UNCHANGED <<acq, conn>>
               ELSE
                   /\ acq' = "None"
                   /\ conn' = "None"
                   /\ Goto(IF op = "health" THEN "conn_close" ELSE "execute")
        ELSE
            /\ attempts' = attempts + 1
            /\ connErr' = out
            /\ acq' = "error"
            /\ Raise("connect", Exc(out))
            /\ UNCHANGED <<retry_count, slept, conn>>
    /\ UNCHANGED <<store, nextId, op, content, idea_id, result, pending, fetched,
                   executes, expect, snap, before, added>>

\* cur = conn.cursor(); cur.execute(...)
Execute ==
    /\ pc = "execute"
    /\ executes' = executes + 1
    /\ \E out \in Outcomes, t \in Clock, scan \in ScanOrders(store) :
        \* an INSERT past the last id of the sequence fails
        IF out # "ok" \/ (op = "add" /\ nextId > MaxIdeas) THEN
            /\ Raise("execute", Exc(IF out = "ok" THEN "DatabaseError" ELSE out))
            /\ UNCHANGED <<store, nextId, result, pending, snap>>
        ELSE IF op = "list" THEN
            /\ result' = SelectAll(scan)
            /\ snap' = store
            /\ Goto("fetch")
            /\ UNCHANGED <<store, nextId, pending>>
        ELSE IF op = "get" THEN
            /\ result' = SelectById(store, idea_id)
            /\ Goto("fetch")
            /\ UNCHANGED <<store, nextId, pending, snap>>
        ELSE
            LET new == [id |-> nextId, content |-> content, created_at |-> t] IN
            /\ nextId' = nextId + 1
            /\ pending' = <<new>>
            /\ result' = <<Returning(new)>>
            /\ store' = AfterInsert(store, new)
            /\ Goto("fetch")
            /\ UNCHANGED snap
    /\ UNCHANGED <<op, content, idea_id, retry_count, connErr, conn, fetched,
                   slept, attempts, acq, expect, before, added>>

\* cur.fetchall() with the row mapping / cur.fetchone()
Fetch ==
    /\ pc = "fetch"
    /\ \E out \in Outcomes :
        IF out # "ok" THEN
            /\ Raise("fetch", Exc(out))
            /\ UNCHANGED fetched
        ELSE
            /\ fetched' = IF op = "list" THEN FetchAll(result)
                             ELSE FetchOne(result)
            /\ Goto(IF op = "add" THEN "commit" ELSE "cur_close")
    /\ UNCHANGED <<store, nextId, op, content, idea_id, retry_count, connErr, conn,
                   result, pending, slept, attempts, executes, acq, expect, snap,
                   before, added>>

\* conn.commit()
Commit ==
    /\ pc = "commit"
    /\ \E out \in Outcomes :
        IF out # "ok" THEN
            /\ Raise("commit", Exc(out))
            /\ UNCHANGED <<store, pending>>
        ELSE
            /\ store' = AfterCommit(store, pending)
            /\ pending' = <<>>
            /\ Goto("cur_close")
    /\ UNCHANGED <<nextId, op, content, idea_id, retry_count, connErr, conn, result,
                   fetched, slept, attempts, executes, acq, expect, snap, before, added>>

\* cur.close()
CurClose ==
    /\ pc = "cur_close"
    /\ \E out \in Outcomes :
        IF out # "ok" THEN Raise("cur_close", Exc(out))
        ELSE Goto("conn_close")
    /\ UNCHANGED <<store, nextId, op, content, idea_id, retry_count, connErr, conn,
                   result, pending, fetched, slept, attempts, executes, acq, expect,
                   snap, before, added>>

\* conn.close(); health_check and list_ideas return right after it
ConnClose ==
    /\ pc = "conn_close"
    /\ \E out \in Outcomes :
        IF out # "ok" THEN
            /\ Raise("conn_close", Exc(out))
            /\ conn' = "close_raised"
        ELSE
            /\ conn' = "closed"
            /\ IF op = "health" THEN Return(HealthResponse)
               ELSE IF op = "list" THEN Return(OkResp(fetched))
               ELSE Goto("build")
    /\ UNCHANGED <<store, nextId, op, content, idea_id, retry_count, connErr, result,
                   pending, fetched, slept, attempts, executes, acq, expect, snap,
                   before, added>>

\* add_idea: return Idea(...); get_idea: the 404 test, then return Idea(...)
Build ==
    /\ pc = "build"
    /\ \E out \in {"ok", "Exception"} :
        IF op = "get" /\ fetched = <<>> THEN
            /\ Raise("build", HTTPException(404, "Idea not found"))
            /\ UNCHANGED added
        ELSE IF out # "ok" THEN
            /\ Raise("build", Exc(out))
            /\ UNCHANGED added
        ELSE IF op = "get" THEN
            /\ Return(OkResp(<<RowToIdea(fetched[1])>>))
            /\ UNCHANGED added
        ELSE
            /\ Return(OkResp(<<AddedIdea(fetched[1], content)>>))
            /\ added' = added \cup {AddedIdea(fetched[1], content)}
    /\ UNCHANGED <<store, nextId, op, content, idea_id, retry_count, connErr, conn,
                   result, pending, fetched, slept, attempts, executes, acq, expect,
                   snap, before>>

\* the response is delivered; the handler's frame and its locals are gone
Finish ==
    /\ pc = "done"
    /\ pc' = "idle"
    /\ op' = "none"
    /\ content' = ""
    /\ idea_id' = 0
    /\ retry_count' = 0
    /\ connErr' = "none"
    /\ conn' = "none"
    /\ result' = <<>>
    /\ pending' = <<>>
    /\ fetched' = <<>>
    /\ resp' = NoResp
    /\ slept' = 0
    /\ attempts' = 0
    /\ executes' = 0
    /\ acq' = "none"
    /\ excKind' = "none"
    /\ excAt' = "none"
    /\ expect' = <<>>
    /\ snap' = {}
    /\ before' = {}
    /\ UNCHANGED <<store, nextId, added>>

Next ==
        \/ Start
        \/ Connect
        \/ Execute
        \/ Fetch
        \/ Commit
        \/ CurClose
        \/ ConnClose
        \/ Build
        \/ Finish

Spec == Init /\ [][Next]_vars

\* ----------------------------------------------------------------- claims
Handlers == {"list", "add", "get"}
SqlSteps == {"execute", "fetch", "commit"}
Completed == pc = "done"
\* a call of the request raised (the 404 of get_idea is raised by the handler itself)
CallRaised == excKind \in ErrKinds

\* C1: get_db_connection makes at most max_retries (5) connect attempts per
\* call.  While fewer than 5 attempts have failed transiently it keeps trying,
\* and an attempt that succeeds then hands the connection to the handler, whose
\* operation succeeds when nothing else raises.  When the first 5 attempts all
\* fail transiently the OperationalError reaches the caller right after the
\* 5th; there is no 6th attempt and never a return without a connection.
C1_RetryBound ==
    /\ attempts <= max_retries
    /\ acq # "None"
    /\ pc = "connect" =>
          retry_count < max_retries /\ attempts = retry_count /\ acq = "none"
    /\ acq = "connected" =>
          /\ retry_count < max_retries
          /\ attempts = retry_count + 1
          /\ pc # "connect"
          /\ (Completed /\ excKind = "none" => resp.status = 200)
    /\ retry_count >= max_retries =>
          /\ acq = "exhausted"
          /\ attempts = max_retries
          /\ retry_count = max_retries
          /\ Completed
          /\ excKind = "OperationalError" /\ excAt = "connect"
          /\ (op \in Handlers => resp.status = 500)
    /\ acq = "exhausted" => retry_count = max_retries

\* add_idea succeeded on the connection the 5th attempt delivered
C1_Witness ==
    /\ Completed /\ op = "add" /\ resp.status = 200
    /\ acq = "connected" /\ retry_count = max_retries - 1 /\ attempts = max_retries

\* C2: health_check always answers 200 with status "healthy": with the
\* connection acquired, with the retries exhausted and with any other error of
\* acquisition or release.
C2_HealthAlwaysHealthy ==
    Completed /\ op = "health" => resp.status = 200 /\ resp.health = "healthy"

C2_Witness ==
    /\ Completed /\ op = "health" /\ acq = "exhausted"
    /\ resp.status = 200 /\ resp.health = "healthy"

\* C3 as stated: for every id that is the id of no persisted Idea, get_idea
\* answers 404 and never 500.
C3_Original ==
    Completed /\ op = "get" /\ idea_id \notin Ids(store) => resp.status = 404

\* C3 amended: for every id that is the id of no persisted Idea, get_idea
\* answers 404 when no call of the request raises, and 500 when one does
\* (acquisition, query, fetch, cursor close or connection close); never 200.
C3_NotFoundUnlessCallRaised ==
    Completed /\ op = "get" /\ idea_id \notin Ids(store) =>
        /\ ~CallRaised => resp.status = 404 /\ resp.detail = "Idea not found"
        /\ CallRaised => resp.status = 500

C3_Witness ==
    /\ Completed /\ op = "get" /\ idea_id \notin Ids(store) /\ store # {}
    /\ ~CallRaised /\ resp.status = 404

\* C4: get_idea with the id a successful add_idea returned, whatever requests
\* ran in between, never answers 404, and when it returns an Idea (no call of
\* the request raises) that Idea is the one add_idea returned: same id, same
\* content as submitted, same created_at, id and created_at both set.
C4_AddThenGet ==
    Completed /\ op = "get" /\ expect # <<>> =>
        /\ resp.status # 404
        /\ ~CallRaised =>
              /\ resp.status = 200
              /\ resp.body = expect
              /\ resp.body[1].id = idea_id
              /\ resp.body[1].id \in 1..MaxIdeas
              /\ resp.body[1].created_at \in Clock
              /\ resp.body[1].content \in Contents

\* the second Idea is read back after both were added
C4_Witness ==
    /\ Completed /\ op = "get" /\ expect # <<>> /\ resp.status = 200
    /\ idea_id = 2 /\ Cardinality(added) = 2

\* C5: a successful list_ideas returns exactly the rows visible when its
\* query ran, each once, in descending created_at order; the empty list when
\* no Idea is persisted.
C5_ListSortedAndComplete ==
    Completed /\ op = "list" /\ resp.status = 200 =>
        LET b == resp.body IN
        /\ Len(b) = Cardinality(snap)
        /\ {b[i] : i \in 1..Len(b)} = snap
        /\ snap = store
        /\ \A i, j \in 1..Len(b) : i < j => b[i].created_at >= b[j].created_at
        /\ (store = {} => b = <<>>)

\* the Idea inserted last carries the older timestamp and is listed last
C5_Witness ==
    /\ Completed /\ op = "list" /\ resp.status = 200 /\ Len(resp.body) = 2
    /\ resp.body[1].created_at > resp.body[2].created_at
    /\ resp.body[1].id < resp.body[2].id

\* C6 as stated: once a request has completed, with success or with any error
\* response, the connection it opened is no longer open (a conn.close() that
\* raised is counted as a release).
C6_Original ==
    Completed => conn # "open"

\* C7 as stated: when all 5 attempts fail, the failure is surfaced after
\* 5 x 2 = 10 time units of retry delay, one delay per failed attempt.
C7_Original ==
    acq = "exhausted" => slept = max_retries * SleepSeconds

\* C7 amended: when all 5 attempts fail, the failure is surfaced after
\* 4 x 2 = 8 time units: a 2-unit delay follows each of the first 4 failed
\* attempts and none follows the 5th.
C7_DelayBetweenAttempts ==
    /\ acq = "exhausted" =>
          slept = (max_retries - 1) * SleepSeconds /\ attempts = max_retries
    /\ pc = "connect" => slept = retry_count * SleepSeconds

C7_Witness ==
    /\ Completed /\ acq = "exhausted" /\ op = "list" /\ resp.status = 500
    /\ slept = 8

\* C8: the table is append-only: every step keeps every committed row as it
\* is, the only step that changes the table is the commit of add_idea, it adds
\* exactly one row, under an id no row had, with the submitted content.
C8_AppendOnly ==
    [][ /\ store \subseteq store'
        /\ store' # store =>
              /\ op = "add" /\ pc = "commit"
              /\ Cardinality(store' \ store) = 1
              /\ \A r \in store' \ store :
                    r.id \notin Ids(store) /\ r.content = content
        /\ \A r, q \in store' : r.id = q.id => r = q ]_vars

\* two Ideas with the same content are persisted and a read has completed
C8_Witness ==
    /\ Completed /\ op \in {"health", "list", "get"} /\ Cardinality(store) = 2
    /\ \A r, q \in store : r.content = q.content

\* C9: a failure that is no transient connectivity error is never retried.  A
\* connect that raises anything but OperationalError ends get_db_connection on
\* that attempt, without a sleep; a failure of the SQL calls of list_ideas,
\* add_idea or get_idea is answered 500 with no further connect and no
\* further execute.
C9_NonTransientNotRetried ==
    /\ pc = "connect" => connErr \in {"none", "OperationalError"}
    /\ acq = "error" =>
          /\ Completed
          /\ connErr \in ErrKinds \ {"OperationalError"}
          /\ excKind = connErr /\ excAt = "connect"
          /\ attempts = retry_count + 1
          /\ slept = retry_count * SleepSeconds
          /\ executes = 0
          /\ (op \in Handlers => resp.status = 500)
    /\ Completed /\ excAt \in SqlSteps =>
          /\ op \in Handlers
          /\ resp.status = 500
          /\ executes = 1
          /\ attempts = retry_count + 1
    /\ executes <= 1

\* the third connect raises a non-transient error after two transient ones
C9_Witness ==
    /\ Completed /\ acq = "error" /\ retry_count = 2 /\ op = "get"
    /\ connErr = "DatabaseError" /\ resp.status = 500

\* C10 as stated: whenever add_idea answers 500 the table is exactly what it
\* was before the request, whichever step failed.
C10_Original ==
    Completed /\ op = "add" /\ resp.status = 500 => store = before

\* C10 amended: when add_idea answers 500 because acquire, insert, fetch of
\* the returned row or commit raised, the table is exactly what it was before
\* the request; when cursor close, connection close or building the response
\* raised, the commit has taken effect and the table holds the new row.
C10_AtomicUntilCommit ==
    Completed /\ op = "add" /\ resp.status = 500 =>
        /\ excAt \in {"connect", "execute", "fetch", "commit"} => store = before
        /\ excAt \in {"cur_close", "conn_close", "build"} =>
              /\ before \subseteq store
              /\ Cardinality(store \ before) = 1
              /\ \A r \in store \ before : r.content = content

\* the commit raised with an Idea already persisted
C10_Witness ==
    /\ Completed /\ op = "add" /\ resp.status = 500 /\ excAt = "commit"
    /\ before # {} /\ store = before

====
